---- MODULE Spec2Model ----
(***************************************************************************)
(* Model of live_heatmap.py: a script that waits on a serial port for a    *)
(* "CFG,<rows>,<cols>" line, sets up a rows x cols heatmap, and then       *)
(* displays each "F,<timestamp>,<v0>,...,<vN-1>" line as a frame.          *)
(*                                                                         *)
(* A line is modelled after .strip() and .split(","): the sequence of its  *)
(* comma-separated tokens.  A token is a record: isInt says whether        *)
(* Python's int() parses it; for an integer token the value is             *)
(* q * 2^32 + r with r in the signed 32-bit range, so q = 0 exactly when   *)
(* the value fits numpy's int32; for any other token s is its text.        *)
(***************************************************************************)
EXTENDS Integers, Sequences, FiniteSets

VARIABLES
    pc,            \* "wait" (lines 13-19), "setup" (24-35), "main" (38-51), "crashed"
    num_rows_sup,  \* None or the configured number of rows
    num_cols_sen,  \* None or the configured number of columns
    parts,         \* the tokens of the line read last (<<>> before the first)
    img,           \* None or the matrix the image displays
    redraws,       \* number of fig.canvas.flush_events() calls so far
    error          \* "" or the exception that ended the script

vars == <<pc, num_rows_sup, num_cols_sen, parts, img, redraws, error>>

\* ---------------------------------------------------------------- bounds
\* Longest sample list of a generated "F" line.
MaxSamples == 7
\* The frame loop is followed until this many redraws have happened.
MaxRedraws == 2

\* ---------------------------------------------------------------- values
\* Python's None; a set value x is the one-element sequence <<x>>.
None == <<>>
Some(x) == <<x>>
Val(o) == o[1]

IntTok(n) == [isInt |-> TRUE, q |-> 0, r |-> n, s |-> ""]
BigTok(k, n) == [isInt |-> TRUE, q |-> k, r |-> n, s |-> ""]
Word(w) == [isInt |-> FALSE, q |-> 0, r |-> 0, s |-> w]

\* vmax = 1023, the display ceiling handed to imshow.
vmax == 1023

\* ---------------------------------------------------------------- inputs
\* "".split(",") is [""]: an empty line or a read timeout.
EmptyLine == <<Word("")>>

RowTokens == {IntTok(-1), IntTok(1), IntTok(2), Word("x")}
ColTokens == {IntTok(-1), IntTok(2), IntTok(3), Word("x")}

CfgLines ==
    {<<Word("CFG"), a, b>> : a \in RowTokens, b \in ColTokens}
        \cup {<<Word("CFG")>>, <<Word("CFG"), IntTok(2)>>,
              <<Word("CFG"), Word("x")>>,
              <<Word("CFG"), IntTok(2), IntTok(3), IntTok(9)>>}

Bases == {1, -2, vmax}
Samples(n, base) == [k \in 1..n |-> IntTok(base + k - 1)]
FLine(ts, samples) == <<Word("F"), ts>> \o samples
BadTokens == {Word("x"), BigTok(1, 7)}

FLines ==
    {FLine(IntTok(100), Samples(n, b)) : n \in 0..MaxSamples, b \in Bases}
        \cup {FLine(Word("t"), Samples(n, 1)) : n \in 0..MaxSamples}
        \cup UNION {{FLine(IntTok(100), [Samples(n, 1) EXCEPT ![p] = t]) :
                        p \in {1, n}, t \in BadTokens} : n \in 1..MaxSamples}

Lines ==
    CfgLines \cup FLines
        \cup {EmptyLine, <<Word("F")>>, <<Word("X"), IntTok(1)>>}

\* ---------------------------------------------------------------- helpers
\* np.zeros((rows, cols))
Zeros(rows, cols) == [i \in 1..rows |-> [j \in 1..cols |-> 0]]

\* Mutant of ReshapeOk: surplus samples are dropped instead of refused.
ReshapeTruncates(values, rows, cols) == Len(values) >= rows * cols

\* values.reshape((rows, cols)) raises ValueError unless the sizes agree.
ReshapeOk(values, rows, cols) == Len(values) = rows * cols

\* Mutant of Reshape: Fortran (column-major) order.
ReshapeColumnMajor(values, rows, cols) ==
    [i \in 1..rows |-> [j \in 1..cols |-> values[(j - 1) * rows + i]]]

\* values.reshape((rows, cols)), C order.
Reshape(values, rows, cols) ==
    [i \in 1..rows |-> [j \in 1..cols |-> values[(i - 1) * cols + j]]]

\* parts[2:]
SampleTokens(p) == SubSeq(p, 3, Len(p))

\* map(int, ...) raises ValueError on a token int() does not parse.
AllInts(toks) == \A k \in 1..Len(toks) : toks[k].isInt

\* Some parsed integer is outside int32.
SomeBig(toks) == \E k \in 1..Len(toks) : toks[k].q # 0

\* np.array(..., dtype=np.int32) where it does not raise: the low 32 bits.
Int32Array(toks) == [k \in 1..Len(toks) |-> toks[k].r]

\* The condition of line 45.
IsFrameLine(p, rows, cols) == p[1] = Word("F") /\ Len(p) >= 2 + rows * cols

Crash(e) ==
    /\ pc' = "crashed"
    /\ error' = e

\* ---------------------------------------------------------------- program
Init ==
    /\ pc = "wait"
    /\ num_rows_sup = None
    /\ num_cols_sen = None
    /\ parts = <<>>
    /\ img = None
    /\ redraws = 0
    /\ error = ""

\* Mutant of WaitIgnore: the waiting loop already displays "F" lines.
WaitShowsFrame(l) ==
    /\ UNCHANGED <<pc, error, num_rows_sup, num_cols_sen>>
    /\ IF l[1] = Word("F") /\ Len(l) >= 2
       THEN /\ img' = Some(<<Int32Array(SampleTokens(l))>>)
            /\ redraws' = redraws + 1
       ELSE UNCHANGED <<img, redraws>>

\* The waiting loop has no branch for a line whose first token is not "CFG".
WaitIgnore(l) == UNCHANGED <<pc, error, num_rows_sup, num_cols_sen, img, redraws>>

\* One iteration of the loop that waits for the CFG line.
WaitConfig ==
    /\ pc = "wait"
    /\ num_rows_sup = None
    /\ \E l \in Lines :
        /\ parts' = l
        /\ IF l[1] # Word("CFG")
           THEN WaitIgnore(l)
           ELSE /\ UNCHANGED <<img, redraws>>
                /\ IF Len(l) < 2
                   THEN Crash("IndexError") /\ UNCHANGED <<num_rows_sup, num_cols_sen>>
                   ELSE IF ~l[2].isInt
                   THEN Crash("ValueError") /\ UNCHANGED <<num_rows_sup, num_cols_sen>>
                   ELSE /\ num_rows_sup' = Some(l[2].r)
                        /\ IF Len(l) < 3
                           THEN Crash("IndexError") /\ UNCHANGED num_cols_sen
                           ELSE IF ~l[3].isInt
                           THEN Crash("ValueError") /\ UNCHANGED num_cols_sen
                           ELSE /\ num_cols_sen' = Some(l[3].r)
                                /\ pc' = "setup"
                                /\ UNCHANGED error

\* The plot set-up between the two loops.
SetupPlot ==
    /\ pc = "setup"
    /\ UNCHANGED <<num_rows_sup, num_cols_sen, parts, redraws>>
    /\ IF Val(num_rows_sup) < 0 \/ Val(num_cols_sen) < 0
       THEN Crash("ValueError") /\ UNCHANGED img
       ELSE /\ img' = Some(Zeros(Val(num_rows_sup), Val(num_cols_sen)))
            /\ pc' = "main"
            /\ UNCHANGED error

\* img.set_data(frame); fig.canvas.flush_events()
ShowFrame(values) ==
    /\ UNCHANGED <<num_rows_sup, num_cols_sen>>
    /\ IF ~ReshapeOk(values, Val(num_rows_sup), Val(num_cols_sen))
       THEN Crash("ValueError") /\ UNCHANGED <<img, redraws>>
       ELSE /\ img' = Some(Reshape(values, Val(num_rows_sup), Val(num_cols_sen)))
            /\ redraws' = redraws + 1
            /\ UNCHANGED <<pc, error>>

\* An exception in the frame loop ends the script.
FrameCrash(e) ==
    /\ Crash(e)
    /\ UNCHANGED <<num_rows_sup, num_cols_sen, img, redraws>>

\* Mutant of FrameIgnore: a CFG line in the frame loop sets the dimensions again.
FrameReconfig(l) ==
    /\ UNCHANGED <<pc, error, img, redraws>>
    /\ IF l[1] = Word("CFG") /\ Len(l) >= 3 /\ l[2].isInt /\ l[3].isInt
       THEN /\ num_rows_sup' = Some(l[2].r)
            /\ num_cols_sen' = Some(l[3].r)
       ELSE UNCHANGED <<num_rows_sup, num_cols_sen>>

\* The frame loop has no branch for a line that fails the test of line 45.
FrameIgnore(l) == UNCHANGED <<pc, error, num_rows_sup, num_cols_sen, img, redraws>>

\* One iteration of the frame loop.
MainLoop ==
    /\ pc = "main"
    /\ redraws < MaxRedraws
    /\ \E l \in Lines :
        /\ parts' = l
        /\ IF l = EmptyLine
           THEN UNCHANGED <<pc, error, num_rows_sup, num_cols_sen, img, redraws>>
           ELSE IF ~IsFrameLine(l, Val(num_rows_sup), Val(num_cols_sen))
           THEN FrameIgnore(l)
           ELSE IF ~AllInts(SampleTokens(l))
           THEN FrameCrash("ValueError")
           ELSE IF SomeBig(SampleTokens(l))
           THEN \/ FrameCrash("OverflowError")
                \/ ShowFrame(Int32Array(SampleTokens(l)))
           ELSE ShowFrame(Int32Array(SampleTokens(l)))

Next == WaitConfig \/ SetupPlot \/ MainLoop

Spec == Init /\ [][Next]_vars

\* ---------------------------------------------------------------- vocabulary of the claims
rows == Val(num_rows_sup)
cols == Val(num_cols_sen)

\* Both dimensions are set.
ConfigKnown == num_rows_sup # None /\ num_cols_sen # None

\* A well-formed configuration line: "CFG" and two integer tokens.
WellFormedCfg(p) ==
    /\ p[1] = Word("CFG")
    /\ Len(p) >= 3
    /\ p[2].isInt
    /\ p[3].isInt

\* The number of rows and the length of each row of a matrix.
Shape(m) == [i \in 1..Len(m) |-> Len(m[i])]

\* An "F" line with exactly rows*cols+2 tokens.
RightLengthF(p) == p[1] = Word("F") /\ Len(p) = rows * cols + 2

\* Sample k (from 0) of an "F" line, as a token.
Sample(p, k) == p[k + 3]

\* Every sample token of p is an integer.
IntegerSamples(p) == \A k \in 3..Len(p) : p[k].isInt

\* Every sample token of p is an integer of the signed 32-bit range.
Int32Samples(p) == \A k \in 3..Len(p) : p[k].isInt /\ p[k].q = 0

\* The matrix m holds, row-major, exactly the samples of the line p.
HoldsSamples(m, p) ==
    /\ Len(m) = rows
    /\ \A i \in 1..rows :
        /\ Len(m[i]) = cols
        /\ \A j \in 1..cols :
            /\ Sample(p, (i - 1) * cols + (j - 1)).q = 0
            /\ m[i][j] = Sample(p, (i - 1) * cols + (j - 1)).r

\* ---------------------------------------------------------------- C1
\* C1: in the configured phase every "F" line whose token count differs from
\* rows*cols+2 is discarded: the buffer is unchanged, nothing is redrawn, no
\* error is raised and the program goes on reading.
C1_WrongLengthDiscarded ==
    [][(pc = "main" /\ parts'[1] = Word("F") /\ Len(parts') # rows * cols + 2)
        => (pc' = "main" /\ error' = "" /\ img' = img /\ redraws' = redraws)]_vars

\* ---------------------------------------------------------------- C2
\* C2: while waiting for configuration, every line that is not a well-formed
\* configuration line is skipped with no error: the program stays waiting
\* with rows and cols unset.
C2_MalformedSkippedWhileWaiting ==
    [][(pc = "wait" /\ ~WellFormedCfg(parts'))
        => (pc' = "wait" /\ error' = ""
            /\ num_rows_sup' = None /\ num_cols_sen' = None)]_vars

\* ---------------------------------------------------------------- C3
\* C3: in the configured phase an "F" line of exactly rows*cols+2 tokens with
\* a sample token that is not an integer is ignored: no error, the buffer
\* keeps the previous frame and the program goes on reading.
C3_NonIntegerSampleIgnored ==
    [][(pc = "main" /\ RightLengthF(parts') /\ ~IntegerSamples(parts'))
        => (pc' = "main" /\ error' = "" /\ img' = img /\ redraws' = redraws)]_vars

\* ---------------------------------------------------------------- C4
\* C4: rows and cols are assigned by the first accepted "CFG" line and never
\* change afterwards; every line of the configured phase, a later "CFG" line
\* with other dimensions included, leaves rows, cols and the buffer shape
\* unchanged.
C4_ConfigSetOnce ==
    [][/\ (num_rows_sup # None => num_rows_sup' = num_rows_sup)
       /\ (num_cols_sen # None => num_cols_sen' = num_cols_sen)
       /\ (~ConfigKnown /\ ConfigKnown' =>
             /\ WellFormedCfg(parts')
             /\ num_rows_sup' = Some(parts'[2].r)
             /\ num_cols_sen' = Some(parts'[3].r))
       /\ (pc = "main" =>
             /\ num_rows_sup' = num_rows_sup
             /\ num_cols_sen' = num_cols_sen
             /\ Shape(Val(img')) = Shape(Val(img)))]_vars

\* A "CFG" line announcing other dimensions has been read in the configured
\* phase, after a frame was displayed.
C4_Witness ==
    /\ pc = "main"
    /\ redraws > 0
    /\ WellFormedCfg(parts)
    /\ parts[2].r >= 0 /\ parts[3].r >= 0
    /\ (parts[2].r # rows \/ parts[3].r # cols)

\* ---------------------------------------------------------------- C5
\* C5: every "F" line received before the first accepted "CFG" line is
\* discarded, and no buffer write or redraw happens while rows and cols are
\* not set.
C5_NoFrameBeforeConfig ==
    [][/\ (~ConfigKnown => img' = img /\ redraws' = redraws)
       /\ (~ConfigKnown /\ parts'[1] = Word("F") =>
             /\ pc' = pc /\ error' = error
             /\ num_rows_sup' = None /\ num_cols_sen' = None
             /\ img' = None /\ redraws' = 0)]_vars

\* An "F" line carrying samples has been read while waiting for CFG.
C5_Witness ==
    /\ pc = "wait"
    /\ parts # <<>>
    /\ parts[1] = Word("F")
    /\ Len(parts) = 8
    /\ Int32Samples(parts)
    /\ img = None /\ redraws = 0

ValidFrame(p) ==
    /\ RightLengthF(p)
    /\ p[2].isInt
    /\ IntegerSamples(p)

\* C7: latest frame wins: each valid "F" line overwrites the whole buffer
\* with its reshaped samples and triggers exactly one redraw; a line that is
\* not a valid frame triggers no redraw and leaves the buffer unchanged.
C7_LatestFrameWins ==
    [][pc = "main" =>
        IF ValidFrame(parts')
        THEN /\ redraws' = redraws + 1
             /\ HoldsSamples(Val(img'), parts')
        ELSE /\ redraws' = redraws
             /\ img' = img]_vars

\* ---------------------------------------------------------------- C8
\* C8: after configuration the buffer has exactly rows rows and cols columns,
\* and every frame written to it carried exactly rows*cols samples.
C8_BufferShape ==
    /\ [](pc = "main" =>
            /\ img # None
            /\ Len(Val(img)) = rows
            /\ \A i \in 1..rows : Len(Val(img)[i]) = cols)
    /\ [][(pc = "main" /\ (redraws' # redraws \/ img' # img))
            => Len(SampleTokens(parts')) = rows * cols]_vars

\* A frame of a non-empty grid has been written to the buffer.
C8_Witness ==
    /\ pc = "main"
    /\ redraws > 0
    /\ rows * cols > 0
    /\ Len(SampleTokens(parts)) = rows * cols
    /\ Val(img) # Zeros(rows, cols)

\* ---------------------------------------------------------------- C9
\* A sample token below 0 or above the display ceiling.
OutOfRange(t) == t.isInt /\ (t.q # 0 \/ t.r < 0 \/ t.r > vmax)

\* C9: an "F" line of the right length whose integer samples include values
\* below 0 or above the display ceiling 1023 is accepted and the values are
\* stored in the buffer unchanged.
C9_OutOfRangeStored ==
    [][(pc = "main" /\ RightLengthF(parts') /\ IntegerSamples(parts')
            /\ \E k \in 3..Len(parts') : OutOfRange(parts'[k]))
        => (pc' = "main" /\ error' = ""
            /\ redraws' = redraws + 1
            /\ HoldsSamples(Val(img'), parts'))]_vars

\* ---------------------------------------------------------------- C10
\* C10: an "F" line of the right length whose timestamp token is not an
\* integer is malformed: it produces no frame and the buffer is unchanged.
C10_BadTimestampRejected ==
    [][(pc = "main" /\ RightLengthF(parts') /\ ~parts'[2].isInt)
        => (img' = img /\ redraws' = redraws)]_vars

====
